---- MODULE Spec2Model ----
(***************************************************************************)
(* courierInfo (main.go): reads a CSV of trip records, validates the       *)
(* coordinate strings of columns 9 and 12 with getLatLong, and registers   *)
(* markers (and, in "line" mode, paths) in a static-map context which is   *)
(* then rendered and saved as a PNG.                                       *)
(*                                                                         *)
(* Strings are sequences of one-character strings.  A float64 is a record  *)
(* [kind, v]: kind "num" carries the value in millionths of a degree       *)
(* (exact for decimal literals of at most six fractional digits, which is  *)
(* what the bounding-box constants use), kinds "nan", "pinf" and "ninf"    *)
(* are the IEEE-754 non-finite values strconv.ParseFloat accepts.          *)
(*                                                                         *)
(* main.go holds two revisions of the program one after the other; the     *)
(* model follows the first (lines 1-174).  The loop of markLocations and   *)
(* the body of getLatLong are the same in the second, which only lacks the *)
(* directory test and uses a narrower bounding box.                        *)
(***************************************************************************)
EXTENDS Integers, Sequences, FiniteSets, TLC

VARIABLES
    limit,        \* -limit flag
    mode,         \* -mode flag
    fileStat,     \* what -file names: "ok" (a readable file), "dir", "missing"
    rows,         \* the records csv.Reader.Read will return, header first
    pc,           \* position of the process
    nread,        \* number of records the reader has returned so far
    rowCount,     \* markLocations' rowCount
    markers,      \* ctx markers, in AddMarker order
    paths,        \* ctx paths, in AddPath order
    examined,     \* history: indices (rowCount values) of the rows whose column 9 reached getLatLong
    latlong,      \* argument of the most recent getLatLong call
    result,       \* what that call returned
    retCount,     \* second return value of markLocations
    retErr,       \* third return value of markLocations
    stdout,       \* lines printed, as tags
    exitCode,     \* process exit status, -1 while running
    imageWritten  \* whether gg.SavePNG wrote the output image

vars == <<limit, mode, fileStat, rows, pc, nread, rowCount, markers, paths,
          examined, latlong, result, retCount, retErr, stdout, exitCode, imageWritten>>

-----------------------------------------------------------------------------
(* Bounds of the model *)

MaxDataRows == 2
MaxLimit == 3

-----------------------------------------------------------------------------
(* float64 *)

Micro == 1000 * 1000

Num(v) == [kind |-> "num", v |-> v]
NaN == [kind |-> "nan", v |-> 0]
PosInf == [kind |-> "pinf", v |-> 0]
NegInf == [kind |-> "ninf", v |-> 0]
Zero == Num(0)

\* a < b on float64: every comparison with NaN is false
FLess(a, b) ==
    IF a.kind = "nan" \/ b.kind = "nan" THEN FALSE
    ELSE IF a.kind = "pinf" \/ b.kind = "ninf" THEN FALSE
    ELSE IF a.kind = "ninf" \/ b.kind = "pinf" THEN TRUE
    ELSE a.v < b.v

FGreater(a, b) == FLess(b, a)

\* Boundary points, in millionths of a degree
SouthernmostPoint == 94972778
NorthernmostPoint == 141019444
WesternmostPoint == 6075000
EasternmostPoint == -11007500

-----------------------------------------------------------------------------
(* strings, strconv *)

Digits == {"0", "1", "2", "3", "4", "5", "6", "7", "8", "9"}

DigitVal(c) ==
    CASE c = "0" -> 0 [] c = "1" -> 1 [] c = "2" -> 2 [] c = "3" -> 3
      [] c = "4" -> 4 [] c = "5" -> 5 [] c = "6" -> 6 [] c = "7" -> 7
      [] c = "8" -> 8 [] c = "9" -> 9

Lower(c) ==
    CASE c = "N" -> "n" [] c = "A" -> "a" [] c = "I" -> "i" [] c = "F" -> "f"
      [] OTHER -> c

LowerStr(s) == [i \in 1..Len(s) |-> Lower(s[i])]

IsSpace(c) == c \in {" ", "\t"}

RECURSIVE TrimLeft(_)
TrimLeft(s) ==
    IF s # <<>> /\ IsSpace(Head(s)) THEN TrimLeft(Tail(s)) ELSE s

RECURSIVE TrimRight(_)
TrimRight(s) ==
    IF s # <<>> /\ IsSpace(s[Len(s)]) THEN TrimRight(SubSeq(s, 1, Len(s) - 1)) ELSE s

\* strings.TrimSpace
TrimSpace(s) == TrimRight(TrimLeft(s))

RECURSIVE SplitFrom(_, _, _)
SplitFrom(rest, cur, sep) ==
    IF rest = <<>> THEN <<cur>>
    ELSE IF Head(rest) = sep THEN <<cur>> \o SplitFrom(Tail(rest), <<>>, sep)
    ELSE SplitFrom(Tail(rest), Append(cur, Head(rest)), sep)

\* strings.Split(s, sep) for a one-character separator
Split(s, sep) == SplitFrom(s, <<>>, sep)

RECURSIVE DigitsValue(_)
DigitsValue(ds) ==
    IF ds = <<>> THEN 0 ELSE DigitsValue(SubSeq(ds, 1, Len(ds) - 1)) * 10 + DigitVal(ds[Len(ds)])

\* the first six fractional digits, right-padded with zeros, as an integer
FracMicro(fs) ==
    DigitsValue([i \in 1..6 |-> IF i <= Len(fs) THEN fs[i] ELSE "0"])

\* strconv's special(): "inf"/"infinity" with an optional sign, "nan" without one,
\* letter case ignored, the whole string consumed
Special(s) ==
    LET signed == s # <<>> /\ Head(s) \in {"+", "-"}
        body == LowerStr(IF signed THEN Tail(s) ELSE s)
        isInf == body \in {<<"i", "n", "f">>, <<"i", "n", "f", "i", "n", "i", "t", "y">>}
    IN  IF isInf THEN [ok |-> TRUE, f |-> IF signed /\ Head(s) = "-" THEN NegInf ELSE PosInf]
        ELSE IF ~signed /\ body = <<"n", "a", "n">> THEN [ok |-> TRUE, f |-> NaN]
        ELSE [ok |-> FALSE, f |-> Zero]

\* strconv's readFloat() for decimal literals without exponent: optional sign,
\* digits with at most one '.', at least one digit
Decimal(s) ==
    LET signed == s # <<>> /\ Head(s) \in {"+", "-"}
        neg == signed /\ Head(s) = "-"
        body == IF signed THEN Tail(s) ELSE s
        dots == {i \in 1..Len(body) : body[i] = "."}
        wellFormed == /\ \A i \in 1..Len(body) : body[i] \in Digits \cup {"."}
                      /\ Cardinality(dots) <= 1
                      /\ \E i \in 1..Len(body) : body[i] \in Digits
        dot == IF dots = {} THEN Len(body) + 1 ELSE CHOOSE i \in dots : TRUE
        mag == DigitsValue(SubSeq(body, 1, dot - 1)) * Micro
                 + FracMicro(SubSeq(body, dot + 1, Len(body)))
    IN  IF wellFormed THEN [ok |-> TRUE, f |-> Num(IF neg THEN 0 - mag ELSE mag)]
        ELSE [ok |-> FALSE, f |-> Zero]

\* strconv.ParseFloat(s, 64): [ok, f]; on a syntax error f is 0
ParseFloat(s) ==
    IF Special(s).ok THEN Special(s) ELSE Decimal(s)

-----------------------------------------------------------------------------
(* getLatLong *)

Comma == ","
Sentinel == <<"-", "9", "9", "9", ",", "-", "9", "9", "9">>

Fail(e) == [x |-> Zero, y |-> Zero, err |-> e]

\* y < SouthernmostPoint || y > NorthernmostPoint || x > WesternmostPoint || x < EasternmostPoint
OutOfBox(x, y) ==
    \/ FLess(y, Num(SouthernmostPoint))
    \/ FGreater(y, Num(NorthernmostPoint))
    \/ FGreater(x, Num(WesternmostPoint))
    \/ FLess(x, Num(EasternmostPoint))

getLatLong(s) ==
    IF s = <<>> \/ s = <<Comma>> \/ s = Sentinel THEN Fail("ErrLatLong")
    ELSE LET xy == Split(s, Comma) IN
         IF Len(xy) # 2 THEN Fail("ErrLatLong")
         ELSE LET px == ParseFloat(TrimSpace(xy[1])) IN
              IF ~px.ok THEN Fail("NumError")
              ELSE LET py == ParseFloat(TrimSpace(xy[2])) IN
                   IF ~py.ok THEN Fail("NumError")
                   ELSE IF OutOfBox(px.f, py.f) THEN Fail("ErrLatLongOutOfRange")
                   ELSE [x |-> px.f, y |-> py.f, err |-> "nil"]

-----------------------------------------------------------------------------
(* the rendering context *)

\* s2.LatLngFromDegrees(lat, lng)
LatLngFromDegrees(lat, lng) == [lat |-> lat, lng |-> lng]

\* sm.NewMarker(pos, color, 4.0)
NewMarker(pos, col) == [position |-> pos, color |-> col, size |-> 4]

\* sm.NewPath(positions, color, 1.0)
NewPath(positions, col) == [positions |-> positions, color |-> col, weight |-> 1]

SourceColor == "00ff00ff"
DestinationColor == "ff0000ff"
PathColor == "000000ff"

\* RowMarkers with the source marker added before the destination is parsed
RowMarkersPartial(o, d) ==
    IF d.err # "nil" THEN << NewMarker(LatLngFromDegrees(o.x, o.y), SourceColor) >>
    ELSE << NewMarker(LatLngFromDegrees(o.x, o.y), SourceColor),
            NewMarker(LatLngFromDegrees(d.x, d.y), DestinationColor) >>

\* what a row whose origin parsed as o adds to the markers once its destination
\* parsed as d: nothing when d failed (continue), else the source and the
\* destination marker
RowMarkers(o, d) ==
    IF d.err # "nil" THEN << >>
    ELSE << NewMarker(LatLngFromDegrees(o.x, o.y), SourceColor),
            NewMarker(LatLngFromDegrees(d.x, d.y), DestinationColor) >>

\* RowPaths with the mode test written as mode != "plot"
RowPathsNotPlot(m, o, d) ==
    IF d.err = "nil" /\ m # "plot"
    THEN << NewPath(<<LatLngFromDegrees(o.x, o.y), LatLngFromDegrees(d.x, d.y)>>, PathColor) >>
    ELSE << >>

\* what that row adds to the paths: one path from origin to destination, only
\* when the destination parsed and mode == "line"
RowPaths(m, o, d) ==
    IF d.err = "nil" /\ m = "line"
    THEN << NewPath(<<LatLngFromDegrees(o.x, o.y), LatLngFromDegrees(d.x, d.y)>>, PathColor) >>
    ELSE << >>

-----------------------------------------------------------------------------
(* inputs *)

OriginColumn == 9
DestinationColumn == 12

Filler == <<"t">>

\* "5,100"
V1 == <<"5", ",", "1", "0", "0">>
\* "-3.5, 120"
V2 == <<"-", "3", ".", "5", ",", " ", "1", "2", "0">>
\* "abc,12.0"
Abc == <<"a", "b", "c", ",", "1", "2", ".", "0">>
\* "NaN,100"
NaNStr == <<"N", "a", "N", ",", "1", "0", "0">>
\* "5,200"
FarStr == <<"5", ",", "2", "0", "0">>

OriginStrings == {V1, Sentinel, Abc, NaNStr}
DestinationStrings == {V2, Sentinel, FarStr}

\* a record of nf fields whose columns 9 and 12 (when present) hold f9 and f12
MkRow(nf, f9, f12) ==
    [i \in 1..nf |-> IF i = OriginColumn + 1 THEN f9
                     ELSE IF i = DestinationColumn + 1 THEN f12 ELSE Filler]

\* field counts of the records: 0 is the nil record csv.Reader returns with a parse error
FieldCounts == {0, 12, 13}

DataRows ==
    {MkRow(nf, f9, f12) : nf \in FieldCounts, f9 \in OriginStrings, f12 \in DestinationStrings}

HeaderRows == {MkRow(13, V1, V2), MkRow(2, Filler, Filler)}

RECURSIVE SeqsUpTo(_, _)
SeqsUpTo(S, n) ==
    IF n = 0 THEN {<<>>}
    ELSE LET shorter == SeqsUpTo(S, n - 1)
         IN  shorter \cup {Append(q, e) : q \in {r \in shorter : Len(r) = n - 1}, e \in S}

\* the files: no record at all, or a header followed by up to MaxDataRows data records
Files == {<<>>} \cup {<<h>> \o d : h \in HeaderRows, d \in SeqsUpTo(DataRows, MaxDataRows)}

Modes == {"plot", "line", "map"}
Limits == 0..MaxLimit

-----------------------------------------------------------------------------
(* the process *)

NoResult == [x |-> Zero, y |-> Zero, err |-> "none"]

Init ==
    /\ limit \in Limits
    /\ mode \in Modes
    /\ fileStat \in {"ok", "dir", "missing"}
    /\ rows \in IF fileStat = "ok" THEN Files ELSE {<<>>}
    /\ pc = "start"
    /\ nread = 0
    /\ rowCount = 0
    /\ markers = <<>>
    /\ paths = <<>>
    /\ examined = <<>>
    /\ latlong = <<>>
    /\ result = NoResult
    /\ retCount = 0
    /\ retErr = "nil"
    /\ stdout = <<>>
    /\ exitCode = -1
    /\ imageWritten = FALSE

\* terminate(err): usage line, the error when there is one, os.Exit(0)
terminate(err) ==
    /\ stdout' = stdout \o (IF err # "nil" THEN <<"Usage", "Error: " \o err>> ELSE <<"Usage">>)
    /\ exitCode' = 0
    /\ pc' = "exited"

\* an index out of range: the Go runtime prints the panic to stderr and exits with status 2
panic ==
    /\ exitCode' = 2
    /\ pc' = "panicked"
    /\ UNCHANGED stdout

\* main prints the input line and calls markLocations, which opens the file
Open ==
    /\ pc = "start"
    /\ stdout' = Append(stdout, "Input")
    /\ IF fileStat = "dir" THEN
           /\ retCount' = 0 /\ retErr' = "ErrBadInput" /\ pc' = "returned"
           /\ UNCHANGED rowCount
       ELSE IF fileStat = "missing" THEN
           /\ retCount' = 0 /\ retErr' = "PathError" /\ pc' = "returned"
           /\ UNCHANGED rowCount
       ELSE
           /\ rowCount' = -1 /\ pc' = "loop"
           /\ UNCHANGED <<retCount, retErr>>
    /\ UNCHANGED <<limit, mode, fileStat, rows, nread, markers, paths, examined,
                   latlong, result, exitCode, imageWritten>>

\* reader.Read() returns io.EOF: break, return ctx, rowCount, nil
LoopEOF ==
    /\ pc = "loop"
    /\ nread = Len(rows)
    /\ retCount' = rowCount
    /\ retErr' = "nil"
    /\ pc' = "returned"
    /\ UNCHANGED <<limit, mode, fileStat, rows, nread, rowCount, markers, paths,
                   examined, latlong, result, stdout, exitCode, imageWritten>>

\* HasColumn with the column taken as a one-based position
HasColumnOneBased(record, c) == Len(record) > c + 1

\* record[c] is in range; otherwise the index expression panics
HasColumn(record, c) == Len(record) > c

\* InLimit with the comparison written as rowCount <= limit + 1
InLimitLoose(lim, rc) == lim = 0 \/ rc <= lim + 1

\* whether the loop body reaches the getLatLong calls for the row counted rc
InLimit(lim, rc) == lim = 0 \/ rc < lim

\* reader.Read() returns the first record: rowCount becomes 0, continue
LoopHeader ==
    /\ pc = "loop"
    /\ nread < Len(rows)
    /\ rowCount + 1 = 0
    /\ nread' = nread + 1
    /\ rowCount' = rowCount + 1
    /\ UNCHANGED <<limit, mode, fileStat, rows, pc, markers, paths, examined,
                   latlong, result, retCount, retErr, stdout, exitCode, imageWritten>>

\* reader.Read() returns a record the limit excludes: nothing but the count changes
LoopBeyondLimit ==
    /\ pc = "loop"
    /\ nread < Len(rows)
    /\ rowCount + 1 # 0
    /\ ~InLimit(limit, rowCount + 1)
    /\ nread' = nread + 1
    /\ rowCount' = rowCount + 1
    /\ UNCHANGED <<limit, mode, fileStat, rows, pc, markers, paths, examined,
                   latlong, result, retCount, retErr, stdout, exitCode, imageWritten>>

\* reader.Read() returns a record within the limit: record[9], record[12], markers, path
LoopExamine ==
    /\ pc = "loop"
    /\ nread < Len(rows)
    /\ rowCount + 1 # 0
    /\ InLimit(limit, rowCount + 1)
    /\ nread' = nread + 1
    /\ rowCount' = rowCount + 1
    /\ LET record == rows[nread + 1] IN
       IF ~HasColumn(record, OriginColumn) THEN
           /\ panic
           /\ UNCHANGED <<markers, paths, examined, latlong, result>>
       ELSE LET o == getLatLong(record[OriginColumn + 1]) IN
           /\ examined' = Append(examined, rowCount + 1)
           /\ IF o.err # "nil" THEN
                  /\ latlong' = record[OriginColumn + 1]
                  /\ result' = o
                  /\ UNCHANGED <<markers, paths, pc, stdout, exitCode>>
              ELSE IF ~HasColumn(record, DestinationColumn) THEN
                  /\ latlong' = record[OriginColumn + 1]
                  /\ result' = o
                  /\ panic
                  /\ UNCHANGED <<markers, paths>>
              ELSE LET d == getLatLong(record[DestinationColumn + 1]) IN
                  /\ latlong' = record[DestinationColumn + 1]
                  /\ result' = d
                  /\ UNCHANGED <<pc, stdout, exitCode>>
                  /\ markers' = markers \o RowMarkers(o, d)
                  /\ paths' = paths \o RowPaths(mode, o, d)
    /\ UNCHANGED <<limit, mode, fileStat, rows, retCount, retErr, imageWritten>>

\* main, after markLocations: if err != nil { terminate(err) }
CheckErr ==
    /\ pc = "returned"
    /\ IF retErr # "nil" THEN terminate(retErr)
       ELSE /\ pc' = "render" /\ UNCHANGED <<stdout, exitCode>>
    /\ UNCHANGED <<limit, mode, fileStat, rows, nread, rowCount, markers, paths,
                   examined, latlong, result, retCount, retErr, imageWritten>>

\* img, err := ctx.Render(); the renderer may fail
Render ==
    /\ pc = "render"
    /\ \E ok \in BOOLEAN :
          IF ok THEN /\ pc' = "save" /\ UNCHANGED <<stdout, exitCode>>
          ELSE terminate("RenderError")
    /\ UNCHANGED <<limit, mode, fileStat, rows, nread, rowCount, markers, paths,
                   examined, latlong, result, retCount, retErr, imageWritten>>

\* gg.SavePNG(outFilePath, img); the write may fail; on success main returns
SavePNG ==
    /\ pc = "save"
    /\ \E ok \in BOOLEAN :
          IF ok THEN /\ imageWritten' = TRUE
                     /\ stdout' = Append(stdout, "Generated")
                     /\ exitCode' = 0
                     /\ pc' = "done"
          ELSE /\ terminate("SaveError")
               /\ UNCHANGED imageWritten
    /\ UNCHANGED <<limit, mode, fileStat, rows, nread, rowCount, markers, paths,
                   examined, latlong, result, retCount, retErr>>

Next ==
    \/ Open
    \/ LoopEOF
    \/ LoopHeader
    \/ LoopBeyondLimit
    \/ LoopExamine
    \/ CheckErr
    \/ Render
    \/ SavePNG

Spec == Init /\ [][Next]_vars

-----------------------------------------------------------------------------
(* getLatLong on its own: one call on an input drawn from ParserInputs *)

\* the text of one side of a coordinate string:
\*   ""  "5"  " 5 "  "abc"  "NaN"  "nan"  "Inf"  "-inf"  "+Inf"  "-999"  "6.075"  "6.075001"  "-11.0075"  "-11.007501"
\*   "94.972778"  "94.972777"  "141.019444"  "141.019445"  "100"  "12.0"  "."  "5."  ".5"  "+5"  "1 2"  "--5"  "-0"
Parts ==
    { <<>>,
      <<"5">>,
      <<" ", "5", " ">>,
      <<"a", "b", "c">>,
      <<"N", "a", "N">>,
      <<"n", "a", "n">>,
      <<"I", "n", "f">>,
      <<"-", "i", "n", "f">>,
      <<"+", "I", "n", "f">>,
      <<"-", "9", "9", "9">>,
      <<"6", ".", "0", "7", "5">>,
      <<"6", ".", "0", "7", "5", "0", "0", "1">>,
      <<"-", "1", "1", ".", "0", "0", "7", "5">>,
      <<"-", "1", "1", ".", "0", "0", "7", "5", "0", "1">>,
      <<"9", "4", ".", "9", "7", "2", "7", "7", "8">>,
      <<"9", "4", ".", "9", "7", "2", "7", "7", "7">>,
      <<"1", "4", "1", ".", "0", "1", "9", "4", "4", "4">>,
      <<"1", "4", "1", ".", "0", "1", "9", "4", "4", "5">>,
      <<"1", "0", "0">>,
      <<"1", "2", ".", "0">>,
      <<".">>,
      <<"5", ".">>,
      <<".", "5">>,
      <<"+", "5">>,
      <<"1", " ", "2">>,
      <<"-", "-", "5">>,
      <<"-", "0">> }

\* strings that do not split into two parts:
\*   "5"  "abc"  "1,2,3"  ",,"  " "  "5 100"
Unsplittable ==
    { <<"5">>,
      <<"a", "b", "c">>,
      <<"1", ",", "2", ",", "3">>,
      <<",", ",">>,
      <<" ">>,
      <<"5", " ", "1", "0", "0">> }

ParserInputs == {a \o <<Comma>> \o b : a, b \in Parts} \cup Unsplittable

ParserInit ==
    /\ latlong \in ParserInputs
    /\ result = NoResult
    /\ pc = "call"
    /\ limit = 0
    /\ mode = "plot"
    /\ fileStat = "ok"
    /\ rows = <<>>
    /\ nread = 0
    /\ rowCount = 0
    /\ markers = <<>>
    /\ paths = <<>>
    /\ examined = <<>>
    /\ retCount = 0
    /\ retErr = "nil"
    /\ stdout = <<>>
    /\ exitCode = -1
    /\ imageWritten = FALSE

CallGetLatLong ==
    /\ pc = "call"
    /\ result' = getLatLong(latlong)
    /\ pc' = "called"
    /\ UNCHANGED <<limit, mode, fileStat, rows, nread, rowCount, markers, paths,
                   examined, latlong, retCount, retErr, stdout, exitCode, imageWritten>>

ParserNext == CallGetLatLong

ParserSpec == ParserInit /\ [][ParserNext]_vars

-----------------------------------------------------------------------------
(* vocabulary of the properties *)

\* number of records after the header
DataRowCount == IF rows = <<>> THEN 0 ELSE Len(rows) - 1

\* the data row counted i (the header is counted 0)
DataRow(i) == rows[i + 1]

UpTo(n) == [i \in 1..n |-> i]

\* getLatLong on the texts that occur in the records
FieldTexts == OriginStrings \cup DestinationStrings \cup {Filler}
Validated == [s \in FieldTexts |-> getLatLong(s)]

Passes(s) == Validated[s].err = "nil"

\* origin (column 9) and destination (column 12) both pass validation
BothValid(r) == Len(r) >= 13 /\ Passes(r[10]) /\ Passes(r[13])

ValidRow(i) == BothValid(DataRow(i))

\* the examined data rows that are valid, in order
ValidExamined == SelectSeq(examined, ValidRow)

OriginOf(i) == Validated[DataRow(i)[10]]
DestinationOf(i) == Validated[DataRow(i)[13]]

\* markLocations has returned on its non-error path
ReturnedOk == pc = "returned" /\ retErr = "nil"

IsFinite(f) == f.kind = "num"

\* both finite, y in [SouthernmostPoint, NorthernmostPoint], x in [EasternmostPoint, WesternmostPoint]
InsideBox(x, y) ==
    /\ IsFinite(x) /\ IsFinite(y)
    /\ SouthernmostPoint <= y.v /\ y.v <= NorthernmostPoint
    /\ EasternmostPoint <= x.v /\ x.v <= WesternmostPoint

CommaCount(s) == Cardinality({i \in 1..Len(s) : s[i] = Comma})

\* the text before and after the single comma of s
BeforeComma(s) == SubSeq(s, 1, (CHOOSE i \in 1..Len(s) : s[i] = Comma) - 1)
AfterComma(s) == SubSeq(s, (CHOOSE i \in 1..Len(s) : s[i] = Comma) + 1, Len(s))

Malformed(s) == s = <<>> \/ s = <<Comma>> \/ s = Sentinel \/ CommaCount(s) # 1

\* header, one valid row, one row with "-999,-999" in column 9
ScenarioFile == << MkRow(13, V1, V2), MkRow(13, V1, V2), MkRow(13, Sentinel, V2) >>

RECURSIVE ExpectedMarkers(_)
ExpectedMarkers(ex) ==
    IF ex = <<>> THEN <<>>
    ELSE LET i == ex[Len(ex)] IN
         ExpectedMarkers(SubSeq(ex, 1, Len(ex) - 1)) \o
           (IF ValidRow(i)
            THEN << [position |-> [lat |-> OriginOf(i).x, lng |-> OriginOf(i).y],
                     color |-> SourceColor, size |-> 4],
                    [position |-> [lat |-> DestinationOf(i).x, lng |-> DestinationOf(i).y],
                     color |-> DestinationColor, size |-> 4] >>
            ELSE <<>>)

-----------------------------------------------------------------------------
(* properties *)

\* C1: with limit N > 0 on a file of at least N data rows, markLocations
\* examines exactly the first N data rows and returns row count N.
C1_ExactlyLimitRows ==
    (ReturnedOk /\ limit > 0 /\ DataRowCount >= limit)
        => (examined = UpTo(limit) /\ retCount = limit)

\* C2: with limit N > 0 at most N data rows are handed to the coordinate
\* parser, whatever the file length; with limit 0 a run that returns has
\* handed every data row after the header to it, in order.
C2_LimitBoundsExamined ==
    /\ limit > 0 => Len(examined) <= limit
    /\ (ReturnedOk /\ limit = 0) => examined = UpTo(DataRowCount)

C2_Witness ==
    ReturnedOk /\ limit = 0 /\ DataRowCount >= 2 /\ Len(examined) = DataRowCount

\* C3: the count markLocations returns on its non-error path is the number
\* of data rows it examined, and is never negative.
C3_CountIsExamined ==
    ReturnedOk => (retCount = Len(examined) /\ retCount >= 0)

\* C4: at every point of the run the number of markers is twice the number
\* of examined data rows whose origin and destination both passed
\* validation; the header is never examined; header + valid row + row with
\* "-999,-999" in column 9 ends with 2 markers and row count 2.
C4_TwoMarkersPerValidRow ==
    /\ \A k \in 1..Len(examined) : examined[k] >= 1
    /\ Len(markers) = 2 * Len(ValidExamined)
    /\ (ReturnedOk /\ limit = 0 /\ rows = ScenarioFile)
           => (Len(markers) = 2 /\ retCount = 2)

C4_Witness ==
    /\ ReturnedOk /\ Len(markers) = 2 /\ Len(examined) = 2
    /\ BothValid(rows[1])
    /\ \E k \in 1..2 : /\ Len(DataRow(k)) >= 13
                       /\ Passes(DataRow(k)[10])
                       /\ ~Passes(DataRow(k)[13])

\* C5: the context holds no path unless mode is "line"; in "line" mode it
\* holds one path per valid examined row, from that row's origin to that
\* row's destination.
C5_PathsFollowMode ==
    /\ mode # "line" => paths = <<>>
    /\ mode = "line" =>
          /\ Len(paths) = Len(ValidExamined)
          /\ \A k \in 1..Len(paths) :
                paths[k].positions =
                    << [lat |-> OriginOf(ValidExamined[k]).x, lng |-> OriginOf(ValidExamined[k]).y],
                       [lat |-> DestinationOf(ValidExamined[k]).x,
                        lng |-> DestinationOf(ValidExamined[k]).y] >>

C5_Witness ==
    mode = "line" /\ Len(paths) = 1 /\ Len(examined) = 2 /\ ValidRow(2)

\* C6: getLatLong returns without error only a pair of finite values inside
\* the bounding box, and when both parts parse as floats (NaN and the
\* infinities included) but the pair is not inside the box the error is
\* ErrLatLongOutOfRange.
C6_OnlyInsideBox ==
    pc = "called" =>
        /\ result.err = "nil" => InsideBox(result.x, result.y)
        /\ (/\ ~Malformed(latlong)
            /\ ParseFloat(TrimSpace(BeforeComma(latlong))).ok
            /\ ParseFloat(TrimSpace(AfterComma(latlong))).ok
            /\ ~InsideBox(ParseFloat(TrimSpace(BeforeComma(latlong))).f,
                          ParseFloat(TrimSpace(AfterComma(latlong))).f))
             => result.err = "ErrLatLongOutOfRange"

\* C7: getLatLong decides in this order: malformed (empty, bare comma,
\* sentinel, not exactly two parts) -> ErrLatLong; a part that is no float
\* -> a number error; a value outside the bounding box ->
\* ErrLatLongOutOfRange; otherwise the parsed pair (first part x, second
\* part y) with a nil error.  A failure returns (0, 0).
C7_DecisionOrder ==
    pc = "called" =>
        LET px == ParseFloat(TrimSpace(BeforeComma(latlong)))
            py == ParseFloat(TrimSpace(AfterComma(latlong)))
        IN  /\ result.err # "nil" => (result.x = Zero /\ result.y = Zero)
            /\ IF Malformed(latlong) THEN result.err = "ErrLatLong"
               ELSE IF ~px.ok \/ ~py.ok THEN result.err = "NumError"
               ELSE IF ~InsideBox(px.f, py.f) THEN result.err = "ErrLatLongOutOfRange"
               ELSE result = [x |-> px.f, y |-> py.f, err |-> "nil"]

\* the decision order of C7 on the inputs neither part of which is NaN
DecisionOrderWithoutNaN ==
    (pc = "called" /\ ~Malformed(latlong)
       /\ ParseFloat(TrimSpace(BeforeComma(latlong))).f # NaN
       /\ ParseFloat(TrimSpace(AfterComma(latlong))).f # NaN)
        => C7_DecisionOrder

\* C8: once a data row of fewer than 13 fields has been read the run has
\* failed with the indexing panic.
C8_ShortRowIsFatal ==
    (\E i \in 2..nread : Len(rows[i]) < 13) => pc = "panicked"

\* C9: when every data row has at least 13 fields the run never panics,
\* markLocations returns a nil error once every record has been read, every row is examined (limit 0), and the markers
\* are exactly those of the valid examined rows, in order: a failing row
\* adds nothing and takes nothing away.
AllWide == fileStat = "ok" /\ \A i \in 2..Len(rows) : Len(rows[i]) >= 13

C9_RowErrorsAreSwallowed ==
    AllWide =>
        /\ pc # "panicked"
        /\ pc = "returned" => (retErr = "nil" /\ nread = Len(rows))
        /\ (limit = 0 /\ pc = "loop" /\ rowCount >= 0) => examined = UpTo(rowCount)
        /\ markers = ExpectedMarkers(examined)

C9_Witness ==
    /\ AllWide /\ ReturnedOk /\ limit = 0 /\ Len(rows) = 3
    /\ Validated[rows[2][10]].err = "NumError"
    /\ Len(markers) = 2

\* C10: every fatal condition ends the process through terminate: usage
\* line printed, exit code 0, no image written.
C10_FatalEndsThroughTerminate ==
    pc \in {"exited", "panicked"} =>
        /\ exitCode = 0
        /\ \E k \in 1..Len(stdout) : stdout[k] = "Usage"
        /\ ~imageWritten

====
